---------------------------- MODULE Spec2Model ----------------------------
(***************************************************************************)
(* The bit-level decompressor of js2p8.py: BitReader (read_bit, read_bits) *)
(* and decompress (move-to-front literals, back-references, raw runs).     *)
(* One decompress call is one behaviour: Init is the state after lines     *)
(* 39-41, every action is one pass through a loop body of the function.    *)
(***************************************************************************)
EXTENDS Integers, Sequences, FiniteSets, TLC

VARIABLES compressed_data, decompressed_len, mtf, output, byte_index,
          bit_index, pc, err, unary, bits_val, index, offset_bits, offset,
          byte_val, length, start, i, last

vars == <<compressed_data, decompressed_len, mtf, output, byte_index,
          bit_index, pc, err, unary, bits_val, index, offset_bits, offset,
          byte_val, length, start, i, last>>

\* ------------------------------------------------------------------ bounds
\* Longest compressed buffer and largest target length explored by Spec.
MaxLen == 4
MaxTarget == 5
\* Number of leading bits that vary over the buffers of LitSpec.
LitBits == 16
\* Largest unary prefix in the enumeration of the (u, extra) rank codes.
MaxUnary == 5

\* ------------------------------------------------------- program constants
\* list(range(256)): the size of the move-to-front table.
MtfSize == 256
\* A byte of the compressed buffer holds 8 bits (bit_index == 8 rolls over).
BitsPerByte == 8

Byte == 0 .. 255

\* The byte values the buffers of Spec are built from.  Over these values
\* the streams of at most MaxLen bytes contain literals of several ranks,
\* back-references of width 5 and 15 with offsets 1 and 2, raw runs (empty,
\* complete and cut short), bad offsets, and streams that end inside every
\* kind of token.
Alphabet == {0, 1, 2, 32, 65, 129, 225}

RECURSIVE SeqsUpTo(_, _)
SeqsUpTo(S, n) ==
    IF n = 0 THEN {<<>>}
    ELSE LET shorter == SeqsUpTo(S, n - 1)
         IN  shorter \cup {Append(s, b) : s \in {t \in shorter : Len(t) = n - 1}, b \in S}

RECURSIVE Pow2(_)
Pow2(n) == IF n = 0 THEN 1 ELSE 2 * Pow2(n - 1)

\* ---------------------------------------------------------------- BitReader
\* A cursor is any record with the fields byte_index and bit_index.
Position(r) == BitsPerByte * r.byte_index + r.bit_index

\* (byte >> bit_index) & 1
BitOf(byte, k) == (byte \div Pow2(k)) % 2

\* Mutation of read_bit: the roll-over resets bit_index and forgets
\* byte_index += 1.
read_bit_NoRoll(data, r) ==
    IF r.byte_index >= Len(data)
    THEN [ok |-> FALSE, value |-> 0,
          byte_index |-> r.byte_index, bit_index |-> r.bit_index]
    ELSE [ok |-> TRUE, value |-> BitOf(data[r.byte_index + 1], r.bit_index),
          byte_index |-> r.byte_index,
          bit_index |-> (r.bit_index + 1) % BitsPerByte]

\* BitReader.read_bit: ok = FALSE is the ValueError "Input data exhausted".
read_bit(data, r) ==
    IF r.byte_index >= Len(data)
    THEN [ok |-> FALSE, value |-> 0,
          byte_index |-> r.byte_index, bit_index |-> r.bit_index]
    ELSE LET bit == BitOf(data[r.byte_index + 1], r.bit_index)
         IN  IF r.bit_index + 1 = BitsPerByte
             THEN [ok |-> TRUE, value |-> bit,
                   byte_index |-> r.byte_index + 1, bit_index |-> 0]
             ELSE [ok |-> TRUE, value |-> bit,
                   byte_index |-> r.byte_index, bit_index |-> r.bit_index + 1]

\* value |= (bit << k): bit k of value is still clear, so the or is a sum.
OrShift(value, bit, k) == value + bit * Pow2(k)

RECURSIVE read_bits_loop(_, _, _, _, _)
read_bits_loop(data, r, n, k, value) ==
    IF k = n
    THEN [ok |-> TRUE, value |-> value,
          byte_index |-> r.byte_index, bit_index |-> r.bit_index]
    ELSE LET b == read_bit(data, r)
         IN  IF ~b.ok THEN b
             ELSE read_bits_loop(data, b, n, k + 1, OrShift(value, b.value, k))

\* BitReader.read_bits
read_bits(data, r, n) == read_bits_loop(data, r, n, 0, 0)

\* --------------------------------------------------------------- decompress
\* The state of one call: the locals of decompress and the reader's cursor.
\* pc names the loop whose body runs next; last names the statement that
\* appended the newest byte of output.
InitState ==
    [mtf |-> [k \in 1 .. MtfSize |-> k - 1], output |-> <<>>,
     byte_index |-> 0, bit_index |-> 0, pc |-> "loop", err |-> "none",
     unary |-> 0, bits_val |-> 0, index |-> 0, offset_bits |-> 0,
     offset |-> 0, byte_val |-> 0, length |-> 0, start |-> 0, i |-> 0,
     last |-> "none"]

\* An exception leaves decompress: the cursor stays where the reader left it.
Fail(s, r, e) ==
    [s EXCEPT !.pc = "failed", !.err = e,
              !.byte_index = r.byte_index, !.bit_index = r.bit_index]

Moved(s, r) ==
    [s EXCEPT !.byte_index = r.byte_index, !.bit_index = r.bit_index]

\* Mutation of LoopCondition: <= for <.
LoopCondition_Inclusive(out, n) == Len(out) <= n

\* while len(output) < decompressed_len
LoopCondition(out, n) == Len(out) < n

\* header_bit = reader.read_bit(); if header_bit == 1: unary = 0 ... else
HeaderStep(data, s) ==
    LET h == read_bit(data, s)
    IN  IF ~h.ok THEN Fail(s, h, "exhausted")
        ELSE IF h.value = 1
             THEN [Moved(s, h) EXCEPT !.pc = "unary", !.unary = 0]
             ELSE [Moved(s, h) EXCEPT !.pc = "selector"]

\* while reader.read_bit() == 1: unary += 1
UnaryStep(data, s) ==
    LET b == read_bit(data, s)
    IN  IF ~b.ok THEN Fail(s, b, "exhausted")
        ELSE IF b.value = 1
             THEN [Moved(s, b) EXCEPT !.unary = s.unary + 1]
             ELSE [Moved(s, b) EXCEPT !.pc = "literal"]

\* unary_mask = (1 << unary) - 1
UnaryMask(u) == Pow2(u) - 1
\* num_bits = 4 + unary
NumBits(u) == 4 + u
\* Mutations of RankIndex: the rank masked to a byte; a shift by 3 for 4.
RankIndex_Masked(u, extra) == (extra + (Pow2(u) - 1) * 16) % 256
RankIndex_Shift3(u, extra) == extra + (Pow2(u) - 1) * 8

\* index = bits_val + (unary_mask << 4)
RankIndex(u, extra) == extra + UnaryMask(u) * 16

\* A Python list subscript lst[k]: defined for -len(lst) <= k < len(lst),
\* a negative k counting from the end; otherwise IndexError.
InList(lst, k) == -Len(lst) <= k /\ k < Len(lst)

\* The position (from 1) of the element lst[k] names.
ListPos(lst, k) == IF k >= 0 THEN k + 1 ELSE Len(lst) + k + 1

\* byte_val = mtf[index]
TableAt(m, k) == m[ListPos(m, k)]

\* Mutation of MoveToFront: the entry is exchanged with the front one.
MoveToFront_Swap(m, k) ==
    [m EXCEPT ![1] = m[ListPos(m, k)], ![ListPos(m, k)] = m[1]]

\* del mtf[index]; mtf.insert(0, byte_val)
MoveToFront(m, k) ==
    LET p == ListPos(m, k)
    IN  <<m[p]>> \o SubSeq(m, 1, p - 1) \o SubSeq(m, p + 1, Len(m))

\* The body of the literal branch after the unary prefix.
LiteralStep(data, s) ==
    LET v == read_bits(data, s, NumBits(s.unary))
        k == RankIndex(s.unary, v.value)
    IN  IF ~v.ok THEN Fail(s, v, "exhausted")
        ELSE IF ~InList(s.mtf, k)
             THEN [Fail(s, v, "rank") EXCEPT !.bits_val = v.value, !.index = k]
             ELSE [Moved(s, v) EXCEPT
                      !.bits_val = v.value,
                      !.index = k,
                      !.byte_val = TableAt(s.mtf, k),
                      !.mtf = MoveToFront(s.mtf, k),
                      !.output = Append(s.output, TableAt(s.mtf, k)),
                      !.last = "literal",
                      !.pc = "loop"]

\* The two selector bits: 1,1 -> 5; 1,0 -> 10; 0 -> 15 (one bit only).
OffsetWidth(data, r) ==
    LET b1 == read_bit(data, r)
    IN  IF ~b1.ok THEN b1
        ELSE IF b1.value = 1
             THEN LET b2 == read_bit(data, b1)
                  IN  IF ~b2.ok THEN b2
                      ELSE [b2 EXCEPT !.value = IF b2.value = 1 THEN 5 ELSE 10]
             ELSE [b1 EXCEPT !.value = 15]

\* Mutation of IsRawRun: the width is not looked at.
IsRawRun_AnyWidth(width, off) == off = 1

\* if offset_bits == 10 and offset == 1
IsRawRun(width, off) == width = 10 /\ off = 1

\* Offset width, offset, and the choice between raw run and back-reference.
SelectorStep(data, s) ==
    LET w == OffsetWidth(data, s)
    IN  IF ~w.ok THEN Fail(s, w, "exhausted")
        ELSE LET o == read_bits(data, w, w.value)
             IN  IF ~o.ok
                 THEN [Fail(s, o, "exhausted") EXCEPT !.offset_bits = w.value]
                 ELSE IF IsRawRun(w.value, o.value + 1)
                      THEN [Moved(s, o) EXCEPT !.offset_bits = w.value,
                                               !.offset = o.value + 1,
                                               !.pc = "raw"]
                      ELSE [Moved(s, o) EXCEPT !.offset_bits = w.value,
                                               !.offset = o.value + 1,
                                               !.length = 3,
                                               !.pc = "length"]

\* Mutations of TargetReached: > for >=; the test left out.
TargetReached_Over(out, n) == Len(out) > n
TargetReached_Never(out, n) == FALSE

\* if len(output) >= decompressed_len: break
TargetReached(out, n) == Len(out) >= n

\* One pass of the raw run's while True.
RawStep(data, n, s) ==
    LET v == read_bits(data, s, 8)
    IN  IF ~v.ok THEN Fail(s, v, "exhausted")
        ELSE IF v.value = 0
             THEN [Moved(s, v) EXCEPT !.byte_val = 0, !.pc = "loop"]
             ELSE LET out == Append(s.output, v.value)
                  IN  [Moved(s, v) EXCEPT
                          !.byte_val = v.value,
                          !.output = out,
                          !.last = "raw",
                          !.pc = IF TargetReached(out, n) THEN "loop" ELSE "raw"]

\* if part != 7: break
LastGroup(part) == part # 7

\* start = len(output) - offset
StartOf(out, off) == Len(out) - off

\* Mutation of BadStart: the check left out.
BadStart_Never(st) == FALSE

\* if start < 0: raise ValueError
BadStart(st) == st < 0

\* One pass of the length loop; after the last group, start and its check.
\* i is the value the for statement hands to the next pass of the copy loop.
LengthStep(data, s) ==
    LET p == read_bits(data, s, 3)
    IN  IF ~p.ok THEN Fail(s, p, "exhausted")
        ELSE IF ~LastGroup(p.value)
             THEN [Moved(s, p) EXCEPT !.length = s.length + p.value]
             ELSE LET st == StartOf(s.output, s.offset)
                  IN  IF BadStart(st)
                      THEN [Fail(s, p, "reference") EXCEPT
                               !.length = s.length + p.value, !.start = st]
                      ELSE [Moved(s, p) EXCEPT
                               !.length = s.length + p.value,
                               !.start = st, !.i = 0, !.pc = "copy"]

\* Mutation of CopyIndex: i is left out of the subscript.
CopyIndex_Fixed(st, k, off) == st

\* start + i % offset
CopyIndex(st, k, off) == st + (k % off)

\* for i in range(length) has another value and the break is not taken.
CopyContinues(s, n) == s.i < s.length /\ ~TargetReached(s.output, n)

\* One pass of the copy loop, or leaving it (range exhausted, or break).
CopyStep(n, s) ==
    IF CopyContinues(s, n)
    THEN LET k == CopyIndex(s.start, s.i, s.offset)
         IN  IF ~InList(s.output, k) THEN Fail(s, s, "index")
             ELSE [s EXCEPT !.output = Append(s.output, s.output[ListPos(s.output, k)]),
                            !.i = s.i + 1,
                            !.last = "copy"]
    ELSE [s EXCEPT !.pc = "loop"]

\* return bytes(output)
ReturnStep(s) == [s EXCEPT !.pc = "done"]

Halted(s) == s.pc \in {"done", "failed"}

\* One step of decompress(data, n) from state s.
Step(data, n, s) ==
    CASE s.pc = "loop" ->
            IF LoopCondition(s.output, n) THEN HeaderStep(data, s) ELSE ReturnStep(s)
      [] s.pc = "unary" -> UnaryStep(data, s)
      [] s.pc = "literal" -> LiteralStep(data, s)
      [] s.pc = "selector" -> SelectorStep(data, s)
      [] s.pc = "raw" -> RawStep(data, n, s)
      [] s.pc = "length" -> LengthStep(data, s)
      [] s.pc = "copy" -> CopyStep(n, s)
      [] OTHER -> s

\* decompress(data, n) as a function of its arguments: the final state.
RECURSIVE RunFrom(_, _, _)
RunFrom(data, n, s) == IF Halted(s) THEN s ELSE RunFrom(data, n, Step(data, n, s))

decompress(data, n) == RunFrom(data, n, InitState)

\* ------------------------------------------------------------ state machine
cur ==
    [mtf |-> mtf, output |-> output, byte_index |-> byte_index,
     bit_index |-> bit_index, pc |-> pc, err |-> err, unary |-> unary,
     bits_val |-> bits_val, index |-> index, offset_bits |-> offset_bits, offset |-> offset,
     byte_val |-> byte_val, length |-> length, start |-> start, i |-> i,
     last |-> last]

Load(s) ==
    /\ mtf' = s.mtf
    /\ output' = s.output
    /\ byte_index' = s.byte_index
    /\ bit_index' = s.bit_index
    /\ pc' = s.pc
    /\ err' = s.err
    /\ unary' = s.unary
    /\ bits_val' = s.bits_val
    /\ index' = s.index
    /\ offset_bits' = s.offset_bits
    /\ offset' = s.offset
    /\ byte_val' = s.byte_val
    /\ length' = s.length
    /\ start' = s.start
    /\ i' = s.i
    /\ last' = s.last
    /\ UNCHANGED <<compressed_data, decompressed_len>>

Start ==
    /\ mtf = InitState.mtf
    /\ output = InitState.output
    /\ byte_index = InitState.byte_index
    /\ bit_index = InitState.bit_index
    /\ pc = InitState.pc
    /\ err = InitState.err
    /\ unary = InitState.unary
    /\ bits_val = InitState.bits_val
    /\ index = InitState.index
    /\ offset_bits = InitState.offset_bits
    /\ offset = InitState.offset
    /\ byte_val = InitState.byte_val
    /\ length = InitState.length
    /\ start = InitState.start
    /\ i = InitState.i
    /\ last = InitState.last

\* decompress(compressed_data, decompressed_len) is entered.
Init ==
    /\ compressed_data \in SeqsUpTo(Alphabet, MaxLen)
    /\ decompressed_len \in 0 .. MaxTarget
    /\ Start

\* Line 43 true, line 44.
ReadHeader ==
    /\ pc = "loop"
    /\ LoopCondition(output, decompressed_len)
    /\ Load(HeaderStep(compressed_data, cur))

\* Line 43 false, line 105.
Return ==
    /\ pc = "loop"
    /\ ~LoopCondition(output, decompressed_len)
    /\ Load(ReturnStep(cur))

ReadUnary ==
    /\ pc = "unary"
    /\ Load(UnaryStep(compressed_data, cur))

DecodeLiteral ==
    /\ pc = "literal"
    /\ Load(LiteralStep(compressed_data, cur))

ReadSelector ==
    /\ pc = "selector"
    /\ Load(SelectorStep(compressed_data, cur))

ReadRaw ==
    /\ pc = "raw"
    /\ Load(RawStep(compressed_data, decompressed_len, cur))

ReadLength ==
    /\ pc = "length"
    /\ Load(LengthStep(compressed_data, cur))

CopyByte ==
    /\ pc = "copy"
    /\ CopyContinues(cur, decompressed_len)
    /\ Load(CopyStep(decompressed_len, cur))

LeaveCopy ==
    /\ pc = "copy"
    /\ ~CopyContinues(cur, decompressed_len)
    /\ Load(CopyStep(decompressed_len, cur))

Next ==
    \/ ReadHeader
    \/ Return
    \/ ReadUnary
    \/ DecodeLiteral
    \/ ReadSelector
    \/ ReadRaw
    \/ ReadLength
    \/ CopyByte
    \/ LeaveCopy

Spec == Init /\ [][Next]_vars

\* The buffers of LitSpec: every value of the first LitBits bits of a buffer
\* whose header bit is 1 (a literal token), the rest of its last byte 0.
BytesOf(v, nbits) ==
    [k \in 1 .. (nbits + BitsPerByte - 1) \div BitsPerByte |->
        (v \div Pow2(BitsPerByte * (k - 1))) % Pow2(BitsPerByte)]

LiteralBuffers == {BytesOf(v, LitBits) : v \in {w \in 0 .. Pow2(LitBits) - 1 : w % 2 = 1}}

\* decompress(compressed_data, 1) is entered on a buffer that starts with a
\* literal: all unary prefixes and all extra fields that fit in LitBits bits.
InitLiteral ==
    /\ compressed_data \in LiteralBuffers
    /\ decompressed_len = 1
    /\ Start

NextLiteral ==
    \/ ReadHeader
    \/ Return
    \/ ReadUnary
    \/ DecodeLiteral

LitSpec == InitLiteral /\ [][NextLiteral]_vars

\* ------------------------------------------------------------------ claims
OutLen == Len(output)
Pos == Position(cur)
BitsLeft == BitsPerByte * Len(compressed_data) - Pos
Identity == [k \in 1 .. MtfSize |-> k - 1]
CursorAt(p) == [byte_index |-> p \div BitsPerByte, bit_index |-> p % BitsPerByte]
BitAt(p) == BitOf(compressed_data[(p \div BitsPerByte) + 1], p % BitsPerByte)
IsPrefix(a, b) == Len(a) <= Len(b) /\ SubSeq(b, 1, Len(a)) = a
Ended == pc \in {"done", "failed"}

\* The step about to be taken starts by reading a bit.
Reads ==
    \/ pc \in {"unary", "literal", "selector", "raw", "length"}
    \/ (pc = "loop" /\ OutLen < decompressed_len)

\* C1: the output never holds more than decompressed_len bytes, whichever
\* statement (literal, raw run, copy) appended the newest one, and a call
\* that returns, returns exactly decompressed_len bytes; a call that ends
\* without returning has failed with an error, so there is no partial result.
C1_ExactLength ==
    /\ OutLen <= decompressed_len
    /\ pc = "done" => OutLen = decompressed_len /\ err = "none"
    /\ pc = "failed" <=> err # "none"
    /\ last = "none" <=> OutLen = 0

\* A back-reference cut short by the target appended the last byte returned.
C1_Witness ==
    /\ pc = "done"
    /\ last = "copy"
    /\ i < length
    /\ OutLen = decompressed_len

C2_Permutation ==
    /\ Len(mtf) = MtfSize
    /\ {mtf[k] : k \in 1 .. MtfSize} = Byte
    /\ Pos = 0 => mtf = Identity

C2_LiteralMove ==
    IF pc = "literal" /\ pc' = "loop"
    THEN /\ mtf'[1] = output'[Len(output')]
         /\ mtf'[1] = mtf[index' + 1]
         /\ \A k \in 1 .. index' : mtf'[k + 1] = mtf[k]
         /\ \A k \in index' + 2 .. MtfSize : mtf'[k] = mtf[k]
    ELSE mtf' = mtf

\* C2: the table is always a permutation of 0..255 and is the identity
\* before the first bit is read; a literal decode puts the appended byte at
\* rank 0, moves the entries of ranks 0..index-1 down by one and leaves the
\* ranks above index alone; every other step (raw run, back-reference,
\* failure) leaves the table unchanged.
C2_MoveToFront == []C2_Permutation /\ [][C2_LiteralMove]_vars

\* A literal of rank >= 2 was decoded after an earlier literal had already
\* reordered the table.
C2_Witness ==
    /\ pc = "loop"
    /\ last = "literal"
    /\ index >= 2
    /\ OutLen >= 2
    /\ mtf[1] = output[OutLen]
    /\ mtf # Identity

C3_Stopped ==
    OutLen >= decompressed_len => pc \in {"copy", "loop", "done"}

C3_NoMoreReads ==
    OutLen >= decompressed_len =>
        /\ Pos' = Pos
        /\ output' = output
        /\ pc' \in {"loop", "done"}
        /\ pc = "loop" => pc' = "done"

\* C3: once the output holds decompressed_len bytes, also in the middle of
\* a copy or of a raw run, no step reads a bit or appends a byte: the only
\* steps left are leaving the copy loop and returning, so the call returns
\* exactly the target length whatever follows in the buffer, or nothing.
C3_Truncation == []C3_Stopped /\ [][C3_NoMoreReads]_vars

\* A raw run was cut short by the target and the call returned although the
\* buffer holds fewer bits than the run's next byte needs.
C3_Witness ==
    /\ pc = "done"
    /\ last = "raw"
    /\ byte_val # 0
    /\ OutLen = decompressed_len
    /\ BitsLeft < 8

C4_CursorInBuffer ==
    /\ byte_index \in 0 .. Len(compressed_data)
    /\ bit_index \in 0 .. BitsPerByte - 1
    /\ byte_index = Len(compressed_data) => bit_index = 0
    /\ err = "exhausted" => pc = "failed" /\ byte_index = Len(compressed_data)
    /\ err \in {"none", "exhausted", "rank", "reference"}
    /\ pc = "failed" => OutLen < decompressed_len

C4_CopyInBounds ==
    /\ err = "reference" => pc = "failed" /\ start < 0 /\ start = OutLen - offset
    /\ pc = "copy" => start >= 0 /\ start = (OutLen - i) - offset
    /\ pc = "copy" /\ i < length /\ OutLen < decompressed_len =>
          /\ 0 <= start + (i % offset)
          /\ start + (i % offset) < OutLen

C4_FailureReported ==
    /\ Reads /\ BitsLeft = 0 =>
          pc' = "failed" /\ err' = "exhausted" /\ output' = output /\ Pos' = Pos
    /\ pc = "literal" /\ BitsLeft < 4 + unary => err' = "exhausted"
    /\ pc = "raw" /\ BitsLeft < 8 => err' = "exhausted"
    /\ pc = "length" /\ BitsLeft < 3 => err' = "exhausted"
    /\ pc' = "failed" => output' = output /\ mtf' = mtf
    /\ pc = "length" /\ pc' # "length" /\ err' # "exhausted" =>
          IF offset > OutLen
          THEN pc' = "failed" /\ err' = "reference"
          ELSE pc' = "copy" /\ start' = OutLen - offset

\* C4: the cursor never leaves the buffer (no wrap-around, no padding bits)
\* and a step that needs a bit the buffer does not hold fails with
\* exhausted-input, appending nothing, so a call whose buffer ends before the
\* target is reached fails; a back-reference whose length has been read and
\* whose offset exceeds the bytes produced fails with corrupt-reference,
\* appending nothing; every index the copy loop reads is in [0, len(output)).
C4_Malformed ==
    []C4_CursorInBuffer /\ []C4_CopyInBounds /\ [][C4_FailureReported]_vars

\* A back-reference of offset 2 was read in full when only one byte had
\* been produced: the call failed with corrupt-reference and copied nothing.
C4_Witness ==
    /\ pc = "failed"
    /\ err = "reference"
    /\ OutLen = 1
    /\ offset = 2
    /\ last = "literal"

C5_Rank ==
    pc = "literal" /\ err' # "exhausted" =>
        LET extra == read_bits(compressed_data, cur, 4 + unary).value
            rank == extra + (Pow2(unary) - 1) * 16
        IN  /\ index' = rank
            /\ rank >= 0
            /\ IF rank > 255
               THEN /\ pc' = "failed"
                    /\ err' = "rank"
                    /\ output' = output
                    /\ mtf' = mtf
               ELSE /\ pc' = "loop"
                    /\ output' = Append(output, mtf[rank + 1])

\* C5: the rank of a literal is extra + (((1 << u) - 1) << 4), never
\* negative; a rank above 255 makes the call fail with invalid-rank, the
\* output and the table as they were; a rank in 0..255 appends the table
\* entry of that rank.
C5_InvalidRank == [](index >= 0) /\ [][C5_Rank]_vars

\* Unary prefix 4 with an extra field of 16 or more: rank 256 or above, the
\* call failed with nothing appended and the table still the identity.
C5_Witness ==
    /\ pc = "failed"
    /\ err = "rank"
    /\ unary = 4
    /\ index >= MtfSize
    /\ output = <<>>
    /\ mtf = Identity

C6_Selector ==
    pc = "selector" /\ pc' # "failed" =>
        LET sel == IF BitAt(Pos) = 0 THEN 1 ELSE 2
        IN  /\ offset_bits' = (IF BitAt(Pos) = 0 THEN 15
                               ELSE IF BitAt(Pos + 1) = 0 THEN 10 ELSE 5)
            /\ Pos' = Pos + sel + offset_bits'
            /\ offset' = read_bits(compressed_data, CursorAt(Pos + sel), offset_bits').value + 1
            /\ output' = output
            /\ IF offset_bits' = 10 /\ offset' = 1
               THEN pc' = "raw"
               ELSE pc' = "length" /\ length' = 3

C6_RawPass ==
    pc = "raw" /\ pc' # "failed" =>
        LET v == read_bits(compressed_data, cur, 8).value
        IN  /\ Pos' = Pos + 8
            /\ byte_val' = v
            /\ IF v = 0
               THEN output' = output /\ pc' = "loop"
               ELSE /\ output' = Append(output, v)
                    /\ pc' = IF Len(output') >= decompressed_len THEN "loop" ELSE "raw"

\* C6: after header bit 0, the token is a raw run exactly when the offset
\* width is 10 and the offset is 1 (raw_offset 0); width 5 or 15 with offset
\* 1 goes on to read a length.  A raw run reads no length: each pass reads 8
\* bits; a byte 0 ends the run without being appended, and the next bit read
\* is the next token's header bit; any other byte is appended.
C6_RawRun == [][C6_Selector /\ C6_RawPass]_vars

\* A raw run, the first token of the buffer, appended its bytes, read its
\* terminating 0 without appending it, and the next token's header bit has
\* been read.
C6_Witness ==
    /\ pc \in {"unary", "selector"}
    /\ last = "raw"
    /\ byte_val = 0
    /\ offset_bits = 10
    /\ offset = 1
    /\ OutLen >= 1
    /\ Pos = 2 + 1 + 10 + 8 * (OutLen + 1) + 1

C7_Copied ==
    pc = "copy" =>
        /\ start >= 0
        /\ i <= length
        /\ OutLen = start + offset + i
        /\ \A k \in 0 .. i - 1 :
              output[start + offset + k + 1] = output[start + (k % offset) + 1]
        /\ i < length => OutLen <= decompressed_len

C7_CopyEnds ==
    pc = "copy" /\ pc' = "loop" =>
        /\ output' = output
        /\ OutLen < decompressed_len => i = length

\* C7: while a back-reference is copied, the i bytes appended so far are
\* output[start + (k mod offset)] for k = 0..i-1, with start the length
\* before the copy minus offset (so offset 1 repeats the preceding byte); a
\* copy that ends without the target being reached has appended exactly
\* length bytes.
C7_CyclicCopy == []C7_Copied /\ [][C7_CopyEnds]_vars

\* A copy of length 3 from offset 2 ran to its end over two different
\* bytes: its third byte repeats its first.
C7_Witness ==
    /\ pc = "copy"
    /\ offset = 2
    /\ i = length
    /\ length > offset
    /\ output[start + 1] # output[start + 2]
    /\ output[OutLen] = output[start + 1]

\* A literal's rank has been computed (the byte appended, or invalid-rank).
Decoded == last = "literal" \/ err = "rank"

\* The codes (u, extra): extra is a field of 4 + u bits.
RankCodes == UNION {{<<u, e>> : e \in 0 .. Pow2(4 + u) - 1} : u \in 0 .. MaxUnary}

CodesOf(r) == {c \in RankCodes : RankIndex(c[1], c[2]) = r}

\* C8: a decoded literal's rank is extra + (((1 << u) - 1) << 4) with extra
\* read from 4 + u bits, the token taking 1 + (u + 1) + (4 + u) bits; ranks
\* 0..15 come from u = 0 and only from it (6 bits in all), ranks 16..47 from
\* u = 1 and only from it, so 15/16 and 47/48 fall in u = 0/1 and 1/2; and
\* each rank 0..255 has exactly one code (u, extra) with extra < 2^(4 + u)
\* (a statement about all codes, evaluated where the buffer 1, 0, .. returns).
C8_Buckets ==
    /\ Decoded =>
          /\ bits_val \in 0 .. Pow2(4 + unary) - 1
          /\ index = bits_val + (Pow2(unary) - 1) * 16
          /\ RankIndex(unary, bits_val) = index
          /\ Pos = 1 + (unary + 1) + (4 + unary)
          /\ unary = 0 <=> index \in 0 .. 15
          /\ unary = 1 <=> index \in 16 .. 47
          /\ unary = 2 <=> index \in 48 .. 111
          /\ unary = 0 => Pos = 6
    /\ pc = "done" => output = <<index>>
    /\ pc = "done" /\ compressed_data = BytesOf(1, LitBits) =>
          \A r \in Byte : Cardinality(CodesOf(r)) = 1

\* Rank 48, the first of bucket u = 2, was decoded.
C8_Witness ==
    /\ pc = "done"
    /\ index = 48
    /\ unary = 2
    /\ bits_val = 0
    /\ output = <<48>>

\* Passes left before the call reads again or ends.
PassesLeft ==
    CASE Ended -> 0
      [] pc = "copy" -> (length - i) + 2
      [] OTHER -> 1

C9_Progress ==
    /\ BitsLeft >= 0
    /\ PassesLeft >= 0
    /\ bit_index \in 0 .. 7
    /\ pc \in {"loop", "unary", "literal", "selector", "raw", "length", "copy",
               "done", "failed"}
    /\ ~Ended => Step(compressed_data, decompressed_len, cur) # cur

C9_Advance ==
    /\ Pos' >= Pos
    /\ Reads /\ pc' # "failed" => Pos' > Pos
    /\ BitsLeft' < BitsLeft \/ (BitsLeft' = BitsLeft /\ PassesLeft' < PassesLeft)

\* C9: every call ends, returned or failed: a call that has not ended can
\* take a step, and every step strictly decreases the pair (bits left in the
\* buffer, passes left before the next read) in lexicographic order, both
\* natural numbers, so no call takes infinitely many steps.  The cursor
\* position never decreases, bit_index stays in 0..7, and every pass of the
\* main loop, the unary loop, the raw run and the length loop that does not
\* fail moves the cursor forward by at least one bit.
C9_Terminates == []C9_Progress /\ [][C9_Advance]_vars

\* A raw run that appended nothing (13 bits of header, 8 of terminator) was
\* followed by a literal (6 bits) and the call returned.
C9_Witness ==
    /\ pc = "done"
    /\ offset_bits = 10
    /\ offset = 1
    /\ byte_val = 0
    /\ last = "literal"
    /\ index = 0
    /\ OutLen = 1
    /\ Pos = 27

C10_Prefixes ==
    /\ pc = "done" =>
          \A m \in 0 .. decompressed_len :
             LET r == decompress(compressed_data, m)
             IN  r.pc = "done" /\ r.output = SubSeq(output, 1, m)
    /\ decompressed_len = 0 => pc \in {"loop", "done"} /\ Pos = 0 /\ output = <<>>

C10_AppendOnly == IsPrefix(output, output') /\ Len(output') <= Len(output) + 1

\* C10: when decompress(c, n) returns, decompress(c, m) returns its first m
\* bytes for every m <= n; no step removes or changes a byte of the output;
\* with target 0 the call returns the empty sequence with the cursor at 0,
\* also on the empty buffer.
C10_PrefixStable == []C10_Prefixes /\ [][C10_AppendOnly]_vars

\* A call returned five bytes ending in a copy; the same buffer with target
\* 3 returns from inside that copy, and with target 1 before it is read.
C10_Witness ==
    /\ pc = "done"
    /\ decompressed_len = 5
    /\ last = "copy"
    /\ start = 0
    /\ offset = 2
    /\ decompress(compressed_data, 3).last = "copy"
    /\ decompress(compressed_data, 1).last = "literal"
    /\ decompress(compressed_data, 1).byte_index < byte_index
=============================================================================
